---- MODULE Spec2Model ----
(***************************************************************************)
(* Delivery pipeline of Done (dnl-fm/done): the message state machine of   *)
(* MessageStateManager, the message store's create/update write path with  *)
(* the STORE_*_EVENT it enqueues, the durable delay queue (Deno KV queue), *)
(* the midnight cron that promotes today's CREATED messages, and the       *)
(* outbound HTTP calls.                                                    *)
(*                                                                         *)
(* Time is counted in minutes (RETRY_DELAY_MINUTES is the unit).  A day    *)
(* has DayLen minutes.  The server's time zone is UTC, so the local        *)
(* calendar day of Dates.getDateOnly is the day of the cron schedule.      *)
(* One queue event is handled at a time, each handler in one step.         *)
(***************************************************************************)
EXTENDS Integers, Sequences, FiniteSets, TLC

\* ---------------------------------------------------------------- bounds
MaxTime == 6        \* the clock stops at MaxTime
DayLen == 2         \* minutes per calendar day
MaxPublish == 3     \* publish_at is drawn from 0..MaxPublish
MaxOps == 1         \* redeliveries, deletes and resets in one run
OpsMaxTime == 3     \* the clock of a run with such operations stops here
MaxRedeliverDelay == 1  \* a redelivered copy arrives up to this much later
SweepMaxTime == 2   \* the clock of a run with two messages stops here
RaceMaxTime == 3    \* the clock of a run with overlapping store calls stops here

\* ------------------------------------------------------ program constants
RETRY_DELAY_MINUTES == 1
RetryLimit == 3

MsgIds == {1, 2}
\* Spec, OpsSpec and TursoSpec follow one message, SweepSpec two.
SingleIds == {1}
NoTime == -1        \* an absent Date (undefined)

\* HTTP outcomes of fetch(): a response status, or 0 for a thrown error
\* (network error, DNS failure, abort after the 8 s timeout).
Thrown == 0
Responses == {200, 201, 500, Thrown}

VARIABLES
  now,           \* wall clock, minutes
  cronDue,       \* midnight has struck and the cron callback has not run yet
  store,         \* id -> stored message (status "NONE": not in the store)
  queue,         \* durable queue: events in arrival order, each visible from .at
  posted,        \* ids for which POST /messages/<url> has returned 201
  attempts,      \* id -> number of POSTs made to payload.url
  gotOk,         \* id -> some POST to payload.url was answered 200 or 201
  everTerminal,  \* id -> the stored status has been SENT or DLQ at some point
  everSent,      \* id -> the stored status has been SENT at some point
  everDLQ,       \* id -> the stored status has been DLQ at some point
  callbacks,     \* id -> number of POSTs made to the failure-callback URL
  response,      \* id -> outcome of the latest POST to payload.url (NoTime: none)
  cbResponse,    \* id -> outcome of the latest failure-callback POST (NoTime: none)
  statusCount,   \* stats: status -> per-status counter
  total,         \* stats: all-time total counter
  byStatus,      \* secondary index BY_STATUS: status -> ids (<<>>: no entry)
  byDate,        \* secondary index BY_PUBLISH_DATE: day -> ids (<<>>: no entry)
  forward,       \* id -> payload.headers.forward of the message (key/value pairs)
  outbound,      \* id -> header list of the latest POST to payload.url
  ops,           \* number of redeliveries, deletes and resets so far
  storageType,   \* STORAGE_TYPE of the process: "KV" or "TURSO"
  enableLogs,    \* ENABLE_LOGS of the process is 'true'
  logs,          \* id -> log type -> number of log entries of the message
  written,       \* id -> number of store events enqueued for the message
  handled,       \* id -> latest store event of the message handled so far
  procs,         \* callback -> position and locals of a store call in progress
  base           \* the store when the calls in progress began, and those calls

vars == <<now, cronDue, store, queue, posted, attempts, gotOk, everTerminal,
          everSent, everDLQ, callbacks, response, cbResponse, statusCount,
          total, byStatus, byDate, forward, outbound, ops,
          storageType, enableLogs, logs, written, handled, procs, base>>

\* ------------------------------------------------------------ data model
NoMsg ==
  [status |-> "NONE", retried |-> 0, last_errors |-> <<>>, publish_at |-> NoTime,
   retry_at |-> NoTime, delivered_at |-> NoTime, fcb |-> FALSE]

\* Dates.getDateOnly: the calendar day of an instant.
getDateOnly(t) == t \div DayLen

\* The calendar days of the run.
Days == 0..((IF MaxTime > MaxPublish THEN MaxTime ELSE MaxPublish) \div DayLen)

\* { ...before, ...data }: fields of the patch win, absent fields are kept.
Merge(before, patch) ==
  [f \in DOMAIN before |-> IF f \in DOMAIN patch THEN patch[f] ELSE before[f]]

\* dup marks a copy the queue delivers again (at-least-once delivery).
\* data is the subject of the event (getModelFromMessage); before is the
\* record as it was before the write, for the events that carry it.
Event(type, id, data, at) ==
  [type |-> type, id |-> id, data |-> data, before |-> NoMsg, at |-> at,
   dup |-> FALSE, seq |-> 0]

\* A STORE_UPDATE_EVENT with data { before, after }.
UpdateEvent(id, before, after, at) ==
  [Event("STORE_UPDATE_EVENT", id, after, at) EXCEPT !.before = before]

\* The ids of a set listed in key order.
RECURSIVE SeqOf(_)
SeqOf(ids) ==
  IF ids = {} THEN <<>>
  ELSE LET id == CHOOSE i \in ids : \A j \in ids : i <= j
       IN <<id>> \o SeqOf(ids \ {id})

\* ---------------------------------------------------------- StatsService
Statuses == {"CREATED", "QUEUED", "DELIVER", "SENT", "RETRY", "DLQ"}

\* incrementKvStats: the status counter goes up by one.
incrementStatus(sc, status) == [sc EXCEPT ![status] = @ + 1]

\* decrementKvStats: the status counter goes down by one, not below 0.
decrementStatus(sc, status) == [sc EXCEPT ![status] = IF @ > 0 THEN @ - 1 ELSE 0]

\* Variant of TotalAfterIncrement: every increment counts for the total.
TotalAfterIncrement_Always(tot, status) == tot + 1

\* incrementKvStats: "only increment total for CREATED status".
TotalAfterIncrement(tot, status) == IF status = "CREATED" THEN tot + 1 ELSE tot

\* -------------------------------------------------------- secondary index
RECURSIVE Dedupe(_)
Dedupe(s) ==
  IF s = <<>> THEN <<>>
  ELSE LET init == Dedupe(SubSeq(s, 1, Len(s) - 1))
           last == s[Len(s)]
       IN IF \E i \in DOMAIN init : init[i] = last THEN init ELSE Append(init, last)

Without(s, id) == SelectSeq(s, LAMBDA x : x # id)

\* _create: [...beforeRefs, id] is written under the status key.
IndexAfterCreate(ix, status, id) == [ix EXCEPT ![status] = Append(@, id)]

\* _updateSecondary (type MANY) for the BY_STATUS key of before and after.
IndexAfterMove(ix, old, new, id) ==
  IF old = new THEN [ix EXCEPT ![old] = Dedupe(Append(@, id))]
  ELSE [ix EXCEPT ![old] = Dedupe(Without(@, id)),
                  ![new] = Dedupe(Append(@, id))]

\* _delete: the whole entry under the key of the deleted record goes.
IndexAfterDelete(ix, key) == [ix EXCEPT ![key] = <<>>]

\* ---------------------------------------------------------- message store
\* createFromReceivedData / create / _create: the record written for a
\* MESSAGE_RECEIVED event, status CREATED and retried 0.
CreatedModel(data) ==
  [NoMsg EXCEPT !.status = "CREATED", !.retried = 0,
                !.publish_at = data.publish_at, !.fcb = data.fcb]

\* update / _update: the stored record after the patch.
UpdatedModel(before, patch) == Merge(before, patch)

\* Variant of StoreAfterUpdate: the patch is written for an unknown id too.
StoreAfterUpdate_Upsert(st, id, patch) ==
  [st EXCEPT ![id] = UpdatedModel(st[id], patch)]

\* store after update(id, patch); an unknown id is left alone (err result).
StoreAfterUpdate(st, id, patch) ==
  IF st[id].status = "NONE" THEN st
  ELSE [st EXCEPT ![id] = UpdatedModel(st[id], patch)]

\* queue after update(id, patch): triggerWriteEvent enqueues one
\* STORE_UPDATE_EVENT carrying the written record, without delay.
\* Variant of QueueAfterUpdate: an update that leaves the status as it was
\* enqueues nothing.
QueueAfterUpdate_OnlyOnChange(q, st, id, patch, t) ==
  IF st[id].status = "NONE" \/ UpdatedModel(st[id], patch).status = st[id].status
  THEN q
  ELSE Append(q, UpdateEvent(id, st[id], UpdatedModel(st[id], patch), t))

QueueAfterUpdate(q, st, id, patch, t) ==
  IF st[id].status = "NONE" THEN q
  ELSE Append(q, UpdateEvent(id, st[id], UpdatedModel(st[id], patch), t))

\* The patch changes the status (data.status && data.status !== current).
ChangesStatus(st, id, patch) ==
  /\ st[id].status # "NONE"
  /\ "status" \in DOMAIN patch
  /\ patch.status # st[id].status

\* status counters after update(id, patch): one down for the old status, one
\* up for the new, when the status changes.
StatsAfterUpdate(sc, st, id, patch) ==
  IF ChangesStatus(st, id, patch)
  THEN incrementStatus(decrementStatus(sc, st[id].status), patch.status)
  ELSE sc

TotalAfterUpdate(tot, st, id, patch) ==
  IF ChangesStatus(st, id, patch) THEN TotalAfterIncrement(tot, patch.status)
  ELSE tot

\* BY_STATUS index after update(id, patch).
IndexAfterUpdate(ix, st, id, patch) ==
  IF st[id].status = "NONE" THEN ix
  ELSE IndexAfterMove(ix, st[id].status, UpdatedModel(st[id], patch).status, id)

\* BY_PUBLISH_DATE index after update(id, patch); no patch carries publish_at,
\* so the key stays and the id is added to its entry.
DateIndexAfterUpdate(dx, st, id, patch) ==
  IF st[id].status = "NONE" THEN dx
  ELSE IndexAfterMove(dx, getDateOnly(st[id].publish_at),
                      getDateOnly(UpdatedModel(st[id], patch).publish_at), id)

\* --------------------------------------------------------- durable queue
\* The event the listener receives next: among the visible events the one
\* that became visible first, in arrival order among equals.
Visible(q, t) == {i \in DOMAIN q : q[i].at <= t}

NextIdx(q, t) ==
  CHOOSE i \in Visible(q, t) :
    \A j \in Visible(q, t) :
      \/ q[i].at < q[j].at
      \/ (q[i].at = q[j].at /\ i <= j)

Remove(q, i) == SubSeq(q, 1, i - 1) \o SubSeq(q, i + 1, Len(q))

HasNext == Visible(queue, now) # {}
Incoming == queue[NextIdx(queue, now)]
Rest == Remove(queue, NextIdx(queue, now))

\* getModelFromMessage: the subject of an event.
getModelFromMessage(message) == message.data

\* kv.enqueue(message, { delay }): Deno KV validates the delay and throws a
\* TypeError for a negative one ("Delay must be >= 0"), so nothing is
\* enqueued; the listener's handler then fails again on every redelivery of
\* the event (the delay only gets more negative) and the event is dropped.
EnqueueAccepted(delay) == delay >= 0

\* ----------------------------------------------------- MessageStateManager
StoreEvents == {"STORE_CREATE_EVENT", "STORE_UPDATE_EVENT", "STORE_DELETE_EVENT"}

\* stateCreated: "send now" when publish_at lies before the current instant.
ShouldDeliverNow(model, t) == model.publish_at < t

\* stateCreated: "queue for later" when publish_at falls on today's date.
ShouldQueue(model, t) == getDateOnly(t) = getDateOnly(model.publish_at)

\* Variant of QueuedDelay: the follow-up event is enqueued without delay.
QueuedDelay_Immediate(model, t) == 0

\* stateQueued: delay of the MESSAGE_QUEUED event.
QueuedDelay(model, t) == model.publish_at - t

\* stateRetry: delay of the MESSAGE_RETRY event, "retryAt or immediately".
RetryDelay(model, t) == IF model.retry_at # NoTime THEN model.retry_at - t ELSE 0

\* Variant of IsSuccess: 201 is not taken for a success.
IsSuccess_Only200(r) == r = 200

\* stateDeliver: the responses that count as delivered.
IsSuccess(r) == r = 200 \/ r = 201

\* stateDeliver: the entry pushed onto last_errors for a failed attempt.
LastError(r) ==
  IF r = Thrown THEN [status |-> NoTime, message |-> "error"]
  ELSE [status |-> r, message |-> "invalid response status"]

\* Variant of ShouldRetry: off by one, a fourth retry is granted.
ShouldRetry_OffByOne(model) == model.retried <= RetryLimit

\* stateDeliver: "retry" while the snapshot's retried is below the limit.
ShouldRetry(model) == model.retried < RetryLimit

\* stateDeliver: the patch of a successful attempt.
SentPatch(t) == [delivered_at |-> t, status |-> "SENT"]

RetryPatch(model, r, t) ==
  [last_errors |-> Append(model.last_errors, LastError(r)),
   retried |-> model.retried + 1,
   retry_at |-> t + RETRY_DELAY_MINUTES,
   status |-> "RETRY"]

\* Variant of DLQPatch: the final failure is counted as a retry too.
DLQPatch_CountsFinal(model, r) ==
  [last_errors |-> Append(model.last_errors, LastError(r)),
   retried |-> model.retried + 1, status |-> "DLQ"]

\* Variant of DLQPatch: the final failure is not recorded in last_errors.
DLQPatch_DropsError(model, r) ==
  [last_errors |-> model.last_errors, status |-> "DLQ"]

\* stateDeliver, "send to DLQ": the patch of the last failed attempt.
DLQPatch(model, r) ==
  [last_errors |-> Append(model.last_errors, LastError(r)), status |-> "DLQ"]

\* stateDeliver: the patch written after the target answered r.
DeliverPatch(model, r, t) ==
  IF IsSuccess(r) THEN SentPatch(t)
  ELSE IF ShouldRetry(model) THEN RetryPatch(model, r, t)
  ELSE DLQPatch(model, r)

\* --------------------------------------------------------- event identity
\* triggerWriteEvent gives every store event the id buildLogId(), a sortable
\* id: for one message the ids grow in the order of the writes.  seq is the
\* rank of the event among the store events of its message (0: not given yet).
Unstamped(q, id) ==
  {i \in DOMAIN q : q[i].id = id /\ q[i].type \in StoreEvents /\ q[i].seq = 0}

Stamp(q, w) ==
  [i \in DOMAIN q |->
     IF i \in Unstamped(q, q[i].id)
     THEN [q[i] EXCEPT !.seq = w[q[i].id] + Cardinality({j \in Unstamped(q, q[i].id) : j <= i})]
     ELSE q[i]]

WrittenAfter(q, w) == [id \in MsgIds |-> w[id] + Cardinality(Unstamped(q, id))]

\* --------------------------------------------------------------- audit log
LogTypes == {"CREATE", "UPDATE", "DELETE"}
NoLogs == [k \in LogTypes |-> 0]

\* main.ts: StoreFactory.getMessagesStore({ kv, sqlite }) is called without
\* the logsStore argument, so a TursoMessagesStore has this.logsStore undefined.
LogsStoreGiven == FALSE

\* KV: triggerWriteEvent returns after the enqueue unless ENABLE_LOGS is
\* 'true'.  Turso: if (this.logsStore && Env.get('ENABLE_LOGS') === 'true').
WritesLog(type, enabled) ==
  IF type = "KV" THEN enabled ELSE LogsStoreGiven /\ enabled

\* One write of the messages store: one log entry when logs are written.
LogsAfterWrite(lg, id, kind) ==
  IF WritesLog(storageType, enableLogs) THEN [lg EXCEPT ![id][kind] = @ + 1] ELSE lg

\* update() of an id that is not stored fails before anything is written.
LogsAfterUpdate(lg, st, id) ==
  IF st[id].status = "NONE" THEN lg ELSE LogsAfterWrite(lg, id, "UPDATE")

\* -------------------------------------------------------------- bookkeeping
Terminal == {"SENT", "DLQ"}

TrackTerminal ==
  /\ everTerminal' = [i \in MsgIds |-> everTerminal[i] \/ store'[i].status \in Terminal]
  /\ everSent' = [i \in MsgIds |-> everSent[i] \/ store'[i].status = "SENT"]
  /\ everDLQ' = [i \in MsgIds |-> everDLQ[i] \/ store'[i].status = "DLQ"]

\* One store update made while handling the incoming event.
UpdateFromHandler(id, patch) ==
  /\ store' = StoreAfterUpdate(store, id, patch)
  /\ queue' = Stamp(QueueAfterUpdate(Rest, store, id, patch, now), written)
  /\ written' = WrittenAfter(QueueAfterUpdate(Rest, store, id, patch, now), written)
  /\ logs' = LogsAfterUpdate(logs, store, id)
  /\ statusCount' = StatsAfterUpdate(statusCount, store, id, patch)
  /\ total' = TotalAfterUpdate(total, store, id, patch)
  /\ byStatus' = IndexAfterUpdate(byStatus, store, id, patch)
  /\ byDate' = DateIndexAfterUpdate(byDate, store, id, patch)
  /\ TrackTerminal

ConsumeOnly ==
  /\ queue' = Rest
  /\ UNCHANGED <<store, everTerminal, everSent, everDLQ, statusCount, total, byStatus, byDate,
               logs, written>>

\* -------------------------------------------------- store calls in progress
\* The cron callback, the queue listener and the reset route are async
\* functions of one process: between two awaits of one the others may run.
Procs == {"cron", "consumer", "reset"}

NoEvent == Event("NONE", 0, NoMsg, 0)

\* pc: the await the call stands before; id, patch: the arguments of update;
\* current, before, refs, count: what the call has read so far; todo: the
\* messages the cron has still to update; keys: the entries the reset has
\* still to delete; event: the queue event the listener is handling.
IdleProc ==
  [pc |-> "idle", id |-> 0, patch |-> [status |-> "NONE"], current |-> "NONE",
   before |-> NoMsg, refs |-> <<>>, count |-> 0, todo |-> <<>>, keys |-> <<>>,
   event |-> NoEvent]

NoBase ==
  [store |-> [i \in MsgIds |-> NoMsg], byStatus |-> [x \in Statuses |-> <<>>],
   byDate |-> [d \in Days |-> <<>>], writes |-> <<>>, overlap |-> FALSE]

\* ------------------------------------------------------------------- Init
InitWith(type, enabled) ==
  /\ now = 0
  /\ cronDue = FALSE
  /\ store = [i \in MsgIds |-> NoMsg]
  /\ queue = <<>>
  /\ posted = {}
  /\ attempts = [i \in MsgIds |-> 0]
  /\ gotOk = [i \in MsgIds |-> FALSE]
  /\ everTerminal = [i \in MsgIds |-> FALSE]
  /\ everSent = [i \in MsgIds |-> FALSE]
  /\ everDLQ = [i \in MsgIds |-> FALSE]
  /\ callbacks = [i \in MsgIds |-> 0]
  /\ response = [i \in MsgIds |-> NoTime]
  /\ cbResponse = [i \in MsgIds |-> NoTime]
  /\ statusCount = [x \in Statuses |-> 0]
  /\ total = 0
  /\ byStatus = [x \in Statuses |-> <<>>]
  /\ byDate = [d \in Days |-> <<>>]
  /\ forward = [i \in MsgIds |-> <<>>]
  /\ outbound = [i \in MsgIds |-> <<>>]
  /\ ops = 0
  /\ storageType = type
  /\ enableLogs = enabled
  /\ logs = [i \in MsgIds |-> NoLogs]
  /\ written = [i \in MsgIds |-> 0]
  /\ handled = [i \in MsgIds |-> 0]
  /\ procs = [p \in Procs |-> IdleProc]
  /\ base = NoBase

\* STORAGE_TYPE defaults to KV, ENABLE_LOGS to off.
Init == InitWith("KV", FALSE)

\* ---------------------------------------------------------------- headers
\* A header name is its lower-case spelling, split into the Done prefix and
\* the rest, together with the letter case it is written in.  Keys of a
\* JavaScript object are equal only when spelling and case agree; header
\* names of a Headers object are equal whatever the case.
Cases == {"lower", "Title"}
ForwardPrefix == "done-forward-"
ForwardedNames == {"done-message-id", "user-agent", "x-trace"}

HeaderName(prefix, rest, case) == [prefix |-> prefix, rest |-> rest, case |-> case]

\* The Done-Forward-* headers a client may send, each with the value "client".
ClientHeaders ==
  {<<HeaderName(ForwardPrefix, n, c), "client">> : n \in ForwardedNames, c \in Cases}

\* Iterating ctx.req.raw.headers yields every name in lower case.
toLowerCase(name) == [name EXCEPT !.case = "lower"]

\* obj[key] = value: the value of an existing key is replaced in place, a new
\* key is added at the end.
ObjectSet(obj, key, value) ==
  IF \E i \in DOMAIN obj : obj[i][1] = key
  THEN [i \in DOMAIN obj |-> IF obj[i][1] = key THEN <<key, value>> ELSE obj[i]]
  ELSE Append(obj, <<key, value>>)

\* Http.extractHeaders, the forward part: the name in lower case with the
\* forward prefix taken off is the key.
RECURSIVE extractHeaders(_)
extractHeaders(req) ==
  IF req = <<>> THEN <<>>
  ELSE LET key == toLowerCase(Head(req)[1])
           tail == extractHeaders(Tail(req))
       IN IF key.prefix = ForwardPrefix
          THEN <<(<<[key EXCEPT !.prefix = ""], Head(req)[2]>>)>> \o tail
          ELSE tail

\* Http.buildDefaultCallbackHeaders: { ...headers, 'Done-Message-Id': ...,
\* 'Done-Status': ..., 'Done-Retried': ..., 'User-Agent': 'Done Light' }.
buildDefaultCallbackHeaders(headers, messageId, status, retried) ==
  LET h1 == ObjectSet(headers, HeaderName("", "done-message-id", "Title"), ToString(messageId))
      h2 == ObjectSet(h1, HeaderName("", "done-status", "Title"), status)
      h3 == ObjectSet(h2, HeaderName("", "done-retried", "Title"), ToString(retried))
  IN ObjectSet(h3, HeaderName("", "user-agent", "Title"), "Done Light")

\* fetch(url, { headers }): the Headers object is filled from the record by
\* appending every key in turn; a name that is already there, in whatever
\* case, gets the further value added to its list.
HeaderValues(obj, name) ==
  LET hits == SelectSeq(obj, LAMBDA kv : kv[1].prefix = "" /\ kv[1].rest = name)
  IN [i \in DOMAIN hits |-> hits[i][2]]

\* ---------------------------------------------------------------- ingress
\* POST /messages/<url>: enqueue MESSAGE_RECEIVED and answer 201.  publish_at
\* comes from Done-Not-Before / Done-Delay (any instant) or is the present;
\* f says whether a Done-Failure-Callback header was sent.
PostWith(id, p, f, req) ==
  /\ id \notin posted
  /\ posted' = posted \cup {id}
  /\ forward' = [forward EXCEPT ![id] = extractHeaders(req)]
  /\ queue' = Append(queue,
        Event("MESSAGE_RECEIVED", id, [NoMsg EXCEPT !.publish_at = p, !.fcb = f], now))
  /\ UNCHANGED <<now, cronDue, store, attempts, outbound, gotOk, everTerminal, everSent,
               everDLQ, callbacks, response, cbResponse, statusCount, total,
               byStatus, byDate, ops,
               storageType, enableLogs, logs, written, handled, procs, base>>

\* A POST without Done-Forward-* headers.
Post(id, p, f) == PostWith(id, p, f, <<>>)

\* GET /messages/<id>: fetchOne, 404 with the error when there is no record.
GetStatus(st, id) == IF st[id].status = "NONE" THEN 404 ELSE 200

\* ------------------------------------------------------------ handleState
\* case MESSAGE_RECEIVED: createFromReceivedData, which enqueues STORE_CREATE_EVENT.
HandleReceived ==
  /\ HasNext
  /\ Incoming.type = "MESSAGE_RECEIVED"
  /\ LET model == CreatedModel(Incoming.data) IN
       /\ store' = [store EXCEPT ![Incoming.id] = model]
       /\ queue' = Stamp(Append(Rest, Event("STORE_CREATE_EVENT", Incoming.id, model, now)),
                          written)
       /\ written' = [written EXCEPT ![Incoming.id] = @ + 1]
       /\ logs' = LogsAfterWrite(logs, Incoming.id, "CREATE")
       /\ statusCount' = incrementStatus(statusCount, model.status)
       /\ total' = TotalAfterIncrement(total, model.status)
       /\ byStatus' = IndexAfterCreate(byStatus, model.status, Incoming.id)
       /\ byDate' = IndexAfterCreate(byDate, getDateOnly(model.publish_at), Incoming.id)
  /\ TrackTerminal
  /\ UNCHANGED <<now, cronDue, posted, forward, attempts, outbound, gotOk, callbacks, response,
               cbResponse, ops,
               storageType, enableLogs, handled, procs, base>>

\* case MESSAGE_QUEUED, MESSAGE_RETRY: update(model.id, { status: 'DELIVER' }).
HandleQueuedOrRetry ==
  /\ HasNext
  /\ Incoming.type \in {"MESSAGE_QUEUED", "MESSAGE_RETRY"}
  /\ UpdateFromHandler(Incoming.id, [status |-> "DELIVER"])
  /\ UNCHANGED <<now, cronDue, posted, forward, attempts, outbound, gotOk, callbacks, response,
               cbResponse, ops,
               storageType, enableLogs, handled, procs, base>>

StoreEventWith(status) ==
  /\ HasNext
  /\ Incoming.type \in StoreEvents
  /\ getModelFromMessage(Incoming).status = status
  /\ handled' = [handled EXCEPT ![Incoming.id] = IF Incoming.seq > @ THEN Incoming.seq ELSE @]

StateCreated ==
  /\ StoreEventWith("CREATED")
  /\ LET model == getModelFromMessage(Incoming) IN
       \/ /\ ShouldDeliverNow(model, now)
          /\ UpdateFromHandler(Incoming.id, [status |-> "DELIVER"])
       \/ /\ ~ShouldDeliverNow(model, now)
          /\ ShouldQueue(model, now)
          /\ UpdateFromHandler(Incoming.id, [status |-> "QUEUED"])
       \/ /\ ~ShouldDeliverNow(model, now)
          /\ ~ShouldQueue(model, now)
          /\ ConsumeOnly
  /\ UNCHANGED <<now, cronDue, posted, forward, attempts, outbound, gotOk, callbacks, response,
               cbResponse, ops,
               storageType, enableLogs, procs, base>>

\* Enqueue a delayed follow-up event carrying the snapshot.
EnqueueFollowUp(type, model, delay) ==
  /\ queue' = IF EnqueueAccepted(delay)
              THEN Append(Rest, Event(type, Incoming.id, model, now + delay))
              ELSE Rest
  /\ UNCHANGED <<store, everTerminal, everSent, everDLQ, statusCount, total, byStatus, byDate,
               logs, written>>

StateQueued ==
  /\ StoreEventWith("QUEUED")
  /\ LET model == getModelFromMessage(Incoming) IN
       EnqueueFollowUp("MESSAGE_QUEUED", model, QueuedDelay(model, now))
  /\ UNCHANGED <<now, cronDue, posted, forward, attempts, outbound, gotOk, callbacks, response,
               cbResponse, ops,
               storageType, enableLogs, procs, base>>

StateRetry ==
  /\ StoreEventWith("RETRY")
  /\ LET model == getModelFromMessage(Incoming) IN
       EnqueueFollowUp("MESSAGE_RETRY", model, RetryDelay(model, now))
  /\ UNCHANGED <<now, cronDue, posted, forward, attempts, outbound, gotOk, callbacks, response,
               cbResponse, ops,
               storageType, enableLogs, procs, base>>

\* stateDeliver: one POST to payload.url, then one store update.
StateDeliver ==
  /\ StoreEventWith("DELIVER")
  /\ \E r \in Responses :
       LET model == getModelFromMessage(Incoming) IN
         /\ attempts' = [attempts EXCEPT ![Incoming.id] = @ + 1]
         /\ gotOk' = [gotOk EXCEPT ![Incoming.id] = @ \/ IsSuccess(r)]
         /\ response' = [response EXCEPT ![Incoming.id] = r]
         /\ outbound' = [outbound EXCEPT ![Incoming.id] =
               buildDefaultCallbackHeaders(forward[Incoming.id], Incoming.id,
                                           model.status, model.retried)]
         /\ UpdateFromHandler(Incoming.id, DeliverPatch(model, r, now))
  /\ UNCHANGED <<now, cronDue, posted, forward, callbacks, cbResponse, ops,
               storageType, enableLogs, procs, base>>

\* stateSent: logs only.
StateSent ==
  /\ StoreEventWith("SENT")
  /\ ConsumeOnly
  /\ UNCHANGED <<now, cronDue, posted, forward, attempts, outbound, gotOk, callbacks, response,
               cbResponse, ops,
               storageType, enableLogs, procs, base>>

\* Variant of CallbackFollowUp: a failed callback puts the event back on the
\* queue to be tried again.
CallbackFollowUp_RetryOnFailure(r) ==
  IF IsSuccess(r) THEN ConsumeOnly
  ELSE /\ queue' = Append(Rest, Incoming)
       /\ UNCHANGED <<store, everTerminal, everSent, everDLQ, statusCount, total, byStatus, byDate,
               logs, written>>

\* stateDLQ after the callback POST: its answer is not looked at and a thrown
\* error is caught and logged, so the event is consumed and nothing else.
CallbackFollowUp(r) == ConsumeOnly

\* stateDLQ: one POST to the failure-callback URL when the header is present.
StateDLQ ==
  /\ StoreEventWith("DLQ")
  /\ LET model == getModelFromMessage(Incoming) IN
       \/ /\ ~model.fcb
          /\ ConsumeOnly
          /\ UNCHANGED <<callbacks, cbResponse>>
       \/ /\ model.fcb
          /\ \E r \in Responses :
               /\ callbacks' = [callbacks EXCEPT ![Incoming.id] = @ + 1]
               /\ cbResponse' = [cbResponse EXCEPT ![Incoming.id] = r]
               /\ CallbackFollowUp(r)
  /\ UNCHANGED <<now, cronDue, posted, forward, attempts, outbound, gotOk, response, ops,
               storageType, enableLogs, procs, base>>

\* ------------------------------------------------------------------- cron
\* fetchByDate(today) of the KV store: the ids under today's BY_PUBLISH_DATE
\* entry, each fetched (fetchMany leaves out ids without a record).
fetchByDate(dx, t) == dx[getDateOnly(t)]

\* fetchMany sorts the fetched models by updated_at, which is not part of the
\* state: every order of the fetched ids is taken into account.
Orders(s) ==
  IF s = <<>> THEN {<<>>}
  ELSE LET perms == {f \in [DOMAIN s -> DOMAIN s] :
                       \A i, j \in DOMAIN s : f[i] = f[j] => i = j}
       IN {[i \in DOMAIN s |-> s[f[i]]] : f \in perms}

\* Deno.cron '0 0 * * *': every fetched message whose (fetched) status is
\* CREATED is updated to QUEUED, one update after the other.  snap is the
\* store as fetched; the result is store, queue, counters, total and indexes.
RECURSIVE CronSweep(_, _, _, _, _, _, _, _, _)
CronSweep(ids, snap, st, q, sc, tot, ix, dx, lg) ==
  IF ids = <<>> THEN <<st, q, sc, tot, ix, dx, lg>>
  ELSE LET id == Head(ids)
           patch == [status |-> "QUEUED"]
       IN IF snap[id].status = "CREATED"
          THEN CronSweep(Tail(ids), snap,
                         StoreAfterUpdate(st, id, patch),
                         QueueAfterUpdate(q, st, id, patch, now),
                         StatsAfterUpdate(sc, st, id, patch),
                         TotalAfterUpdate(tot, st, id, patch),
                         IndexAfterUpdate(ix, st, id, patch),
                         DateIndexAfterUpdate(dx, st, id, patch),
                         LogsAfterUpdate(lg, st, id))
          ELSE CronSweep(Tail(ids), snap, st, q, sc, tot, ix, dx, lg)

\* The cron callback run over the fetched ids.
CronOver(ids) ==
  /\ cronDue
  /\ cronDue' = FALSE
  /\ LET res == CronSweep(ids, store, store, queue, statusCount, total,
                          byStatus, byDate, logs) IN
       /\ store' = res[1]
       /\ queue' = Stamp(res[2], written)
       /\ written' = WrittenAfter(res[2], written)
       /\ statusCount' = res[3]
       /\ total' = res[4]
       /\ byStatus' = res[5]
       /\ byDate' = res[6]
       /\ logs' = res[7]
  /\ TrackTerminal
  /\ UNCHANGED <<now, posted, forward, attempts, outbound, gotOk, callbacks, response, cbResponse, ops,
               storageType, enableLogs, handled, procs, base>>

Cron == \E ids \in Orders(fetchByDate(byDate, now)) : CronOver(ids)

\* ------------------------------------------------------------------ clock
Tick ==
  /\ now < MaxTime
  /\ ~cronDue
  /\ now' = now + 1
  /\ cronDue' = ((now + 1) % DayLen = 0)
  /\ UNCHANGED <<store, queue, posted, forward, attempts, outbound, gotOk, everTerminal, everSent,
               everDLQ, callbacks, response, cbResponse, statusCount, total,
               byStatus, byDate, ops,
               storageType, enableLogs, logs, written, handled, procs, base>>

Next ==
  \/ \E id \in SingleIds, p \in 0..MaxPublish, f \in BOOLEAN : Post(id, p, f)
  \/ HandleReceived
  \/ HandleQueuedOrRetry
  \/ StateCreated
  \/ StateQueued
  \/ StateDeliver
  \/ StateSent
  \/ StateRetry
  \/ StateDLQ
  \/ Cron
  \/ Tick

Spec == Init /\ [][Next]_vars

\* ----------------------------------------------- operations on the side
\* At-least-once delivery: the queue hands the next event to the listener and
\* keeps a copy that it delivers once more, at once or some time later.
Redeliver ==
  /\ ops < MaxOps
  /\ HasNext
  /\ ops' = ops + 1
  /\ \E d \in 0..MaxRedeliverDelay :
       queue' = Append(queue, [Incoming EXCEPT !.dup = TRUE, !.at = now + d])
  /\ UNCHANGED <<now, cronDue, store, posted, forward, attempts, outbound, gotOk, everTerminal,
                 everSent, everDLQ, callbacks, response, cbResponse,
                 statusCount, total, byStatus, byDate,
               storageType, enableLogs, logs, written, handled, procs, base>>

\* KvMessagesStore.delete(id) of a stored message: its status counter goes
\* down, the record and its index entry go, STORE_DELETE_EVENT is enqueued.
Delete(id) ==
  /\ ops < MaxOps
  /\ store[id].status # "NONE"
  /\ ops' = ops + 1
  /\ statusCount' = decrementStatus(statusCount, store[id].status)
  /\ store' = [store EXCEPT ![id] = NoMsg]
  /\ byStatus' = IndexAfterDelete(byStatus, store[id].status)
  /\ byDate' = IndexAfterDelete(byDate, getDateOnly(store[id].publish_at))
  /\ queue' = Stamp(Append(queue, [Event("STORE_DELETE_EVENT", id, store[id], now)
                                    EXCEPT !.before = store[id]]), written)
  /\ written' = [written EXCEPT ![id] = @ + 1]
  /\ logs' = LogsAfterWrite(logs, id, "DELETE")
  /\ TrackTerminal
  /\ UNCHANGED <<now, cronDue, posted, forward, attempts, outbound, gotOk, callbacks, response,
                 cbResponse, total,
               storageType, enableLogs, handled, procs, base>>

\* DELETE /admin/reset/<match> of KvAdminRoutes: every KV entry whose key path
\* contains stores/<match> is deleted, every entry when no match is given.  The
\* messages and their indexes live under stores/messages, the stats counters
\* under stats/messages, which goes only when no match is given.
ResetMatches == {"", "messages", "migrations"}

ResetHitsMessages(match) == match = "" \/ match = "messages"

\* The answer is c.json({ message: 'fresh as new!', match }) for every match.
ResetStatus(match) == 200

Reset(match) ==
  /\ ops < MaxOps
  /\ \E id \in MsgIds : store[id].status # "NONE"
  /\ ops' = ops + 1
  /\ store' = IF ResetHitsMessages(match) THEN [i \in MsgIds |-> NoMsg] ELSE store
  /\ byStatus' = IF ResetHitsMessages(match) THEN [x \in Statuses |-> <<>>] ELSE byStatus
  /\ byDate' = IF ResetHitsMessages(match) THEN [d \in Days |-> <<>>] ELSE byDate
  /\ statusCount' = IF match = "" THEN [x \in Statuses |-> 0] ELSE statusCount
  /\ total' = IF match = "" THEN 0 ELSE total
  /\ logs' = IF match = "" THEN [i \in MsgIds |-> NoLogs] ELSE logs
  /\ TrackTerminal
  /\ UNCHANGED <<now, cronDue, queue, posted, forward, attempts, outbound, gotOk, callbacks,
                 response, cbResponse,
               storageType, enableLogs, written, handled, procs, base>>

OpsTick ==
  /\ now < OpsMaxTime
  /\ Tick

OpsNext ==
  \/ \E id \in SingleIds, p \in 0..MaxPublish, f \in BOOLEAN : Post(id, p, f)
  \/ HandleReceived
  \/ HandleQueuedOrRetry
  \/ StateCreated
  \/ StateQueued
  \/ StateDeliver
  \/ StateSent
  \/ StateRetry
  \/ StateDLQ
  \/ Cron
  \/ OpsTick
  \/ Redeliver
  \/ \E id \in MsgIds : Delete(id)
  \/ \E match \in ResetMatches : Reset(match)

OpsSpec == Init /\ [][OpsNext]_vars

\* ------------------------------------------------------- two messages
\* Two messages on the KV store up to the first midnight and one delete.  No
\* message gets as far as DLQ within SweepMaxTime, so stateDLQ has no event
\* to handle here.
SweepTick ==
  /\ now < SweepMaxTime
  /\ Tick

SweepNext ==
  \/ \E id \in MsgIds, p \in 0..MaxPublish : Post(id, p, FALSE)
  \/ HandleReceived
  \/ HandleQueuedOrRetry
  \/ StateCreated
  \/ StateQueued
  \/ StateDeliver
  \/ StateSent
  \/ StateRetry
  \/ Cron
  \/ SweepTick
  \/ \E id \in MsgIds : Delete(id)

SweepSpec == Init /\ [][SweepNext]_vars

\* ------------------------------------------------------ stats initialize
\* POST /admin/stats/initialize: the records under stores/messages, without
\* the secondaries, each as { status, publish_at }.
StoredMessageList(st) ==
  LET ids == SeqOf({id \in MsgIds : st[id].status # "NONE"})
  IN [i \in DOMAIN ids |-> [status |-> st[ids[i]].status,
                            publish_at |-> st[ids[i]].publish_at]]

\* initializeKvStats, the loop: statusCounts[msg.status] gets one more for
\* every message; a status without message has no entry (0 here).
RECURSIVE CountByStatus(_)
CountByStatus(messages) ==
  IF messages = <<>> THEN [x \in Statuses |-> 0]
  ELSE incrementStatus(CountByStatus(SubSeq(messages, 1, Len(messages) - 1)),
                       messages[Len(messages)].status)

\* Variant of initializeKvStats: the stats entries are not deleted first, a
\* status without message keeps its earlier counter.
initializeKvStats_NoReset(sc, messages) ==
  LET counts == CountByStatus(messages)
  IN [x \in Statuses |-> IF counts[x] > 0 THEN counts[x] ELSE sc[x]]

\* initializeKvStats: every entry under stats/messages is deleted, then the
\* counted statuses are written; a deleted entry reads as 0.
initializeKvStats(sc, messages) ==
  LET cleared == [x \in Statuses |-> 0]
      counts == CountByStatus(messages)
  IN [x \in Statuses |-> IF counts[x] > 0 THEN counts[x] ELSE cleared[x]]

InitializeStats ==
  /\ \E id \in MsgIds : id \in posted
  /\ LET messages == StoredMessageList(store) IN
       /\ statusCount' = initializeKvStats(statusCount, messages)
       /\ total' = Len(messages)
  /\ UNCHANGED <<now, cronDue, store, queue, posted, forward, attempts, outbound,
                 gotOk, everTerminal, everSent, everDLQ, callbacks, response,
                 cbResponse, byStatus, byDate, ops,
               storageType, enableLogs, logs, written, handled, procs, base>>

StatsNext ==
  \/ \E id \in SingleIds, p \in 0..MaxPublish, f \in BOOLEAN : Post(id, p, f)
  \/ HandleReceived
  \/ HandleQueuedOrRetry
  \/ StateCreated
  \/ StateQueued
  \/ StateDeliver
  \/ StateSent
  \/ StateRetry
  \/ StateDLQ
  \/ Cron
  \/ OpsTick
  \/ Redeliver
  \/ \E id \in MsgIds : Delete(id)
  \/ \E match \in ResetMatches : Reset(match)
  \/ InitializeStats

StatsSpec == Init /\ [][StatsNext]_vars

\* ------------------------------------------------------ forward headers
\* The pipeline of one message whose POST carries at most one of the
\* Done-Forward-* headers of ClientHeaders.
Requests == {<<>>} \cup {<<h>> : h \in ClientHeaders}

HeaderNext ==
  \/ \E id \in SingleIds, p \in 0..MaxPublish, req \in Requests : PostWith(id, p, FALSE, req)
  \/ HandleReceived
  \/ HandleQueuedOrRetry
  \/ StateCreated
  \/ StateQueued
  \/ StateDeliver
  \/ StateSent
  \/ StateRetry
  \/ StateDLQ
  \/ Cron
  \/ OpsTick

HeaderSpec == Init /\ [][HeaderNext]_vars

\* ------------------------------------------------- the Turso store backend
\* With STORAGE_TYPE = TURSO the same state manager, cron and queue run over
\* TursoMessagesStore.  Its update has the effects of the KV store's update on
\* the message, the per-status counters and the queue; it keeps no secondary
\* index, so byStatus is carried along and never read.

\* getSqliteStats: the total is the number of rows of the messages table.
TursoTotal(st) == Cardinality({id \in MsgIds : st[id].status # "NONE"})

\* case MESSAGE_RECEIVED over TursoMessagesStore.create: the INSERT fails on
\* an id that exists (primary key), an error is returned, nothing is written.
TursoHandleReceived ==
  /\ HasNext
  /\ Incoming.type = "MESSAGE_RECEIVED"
  /\ LET model == CreatedModel(Incoming.data) IN
       IF store[Incoming.id].status # "NONE"
       THEN ConsumeOnly
       ELSE /\ store' = [store EXCEPT ![Incoming.id] = model]
            /\ queue' = Stamp(Append(Rest, Event("STORE_CREATE_EVENT", Incoming.id, model, now)),
                               written)
            /\ written' = [written EXCEPT ![Incoming.id] = @ + 1]
            /\ logs' = LogsAfterWrite(logs, Incoming.id, "CREATE")
            /\ statusCount' = incrementStatus(statusCount, model.status)
            /\ total' = TursoTotal(store')
            /\ UNCHANGED <<byStatus, byDate>>
            /\ TrackTerminal
  /\ UNCHANGED <<now, cronDue, posted, forward, attempts, outbound, gotOk, callbacks, response,
               cbResponse, ops,
               storageType, enableLogs, handled, procs, base>>

\* TursoMessagesStore.fetchByDate: the rows with date(publish_at) = date(t),
\* ordered by publish_at (rows with equal publish_at in any order).
TursoFetchByDate(st, t) ==
  LET rows == {id \in MsgIds : /\ st[id].status # "NONE"
                                /\ getDateOnly(st[id].publish_at) = getDateOnly(t)}
  IN {o \in Orders(SeqOf(rows)) :
        \A i, j \in DOMAIN o : i < j => st[o[i]].publish_at <= st[o[j]].publish_at}

TursoCron == \E ids \in TursoFetchByDate(store, now) : CronOver(ids)

\* TursoMessagesStore.delete(id) of a stored message: the row is deleted and
\* the counter of its status goes down; nothing is enqueued.
TursoDelete(id) ==
  /\ ops < MaxOps
  /\ store[id].status # "NONE"
  /\ ops' = ops + 1
  /\ store' = [store EXCEPT ![id] = NoMsg]
  /\ statusCount' = decrementStatus(statusCount, store[id].status)
  /\ total' = TursoTotal(store')
  /\ logs' = [logs EXCEPT ![id] = NoLogs]
  /\ TrackTerminal
  /\ UNCHANGED <<now, cronDue, queue, posted, forward, attempts, outbound, gotOk, callbacks,
                 response, cbResponse, byStatus, byDate,
               storageType, enableLogs, written, handled, procs, base>>

\* DELETE /admin/reset/<match> of TursoAdminRoutes: messages, or no match,
\* deletes the rows of the messages table (the message_stats rows stay);
\* migrations is refused.
TursoResetStatus(match) ==
  IF ResetHitsMessages(match) \/ match = "logs" THEN 200 ELSE 400

TursoReset(match) ==
  /\ ops < MaxOps
  /\ \E id \in MsgIds : store[id].status # "NONE"
  /\ ops' = ops + 1
  /\ store' = IF ResetHitsMessages(match) THEN [i \in MsgIds |-> NoMsg] ELSE store
  /\ total' = TursoTotal(store')
  /\ logs' = IF ResetHitsMessages(match) THEN [i \in MsgIds |-> NoLogs] ELSE logs
  /\ TrackTerminal
  /\ UNCHANGED <<now, cronDue, queue, posted, forward, attempts, outbound, gotOk, callbacks,
                 response, cbResponse, statusCount, byStatus, byDate,
               storageType, enableLogs, written, handled, procs, base>>

TursoNext ==
  \/ \E id \in SingleIds, p \in 0..MaxPublish, f \in BOOLEAN : Post(id, p, f)
  \/ TursoHandleReceived
  \/ HandleQueuedOrRetry
  \/ StateCreated
  \/ StateQueued
  \/ StateDeliver
  \/ StateSent
  \/ StateRetry
  \/ StateDLQ
  \/ TursoCron
  \/ OpsTick
  \/ Redeliver
  \/ \E id \in MsgIds : TursoDelete(id)
  \/ \E match \in ResetMatches : TursoReset(match)

TursoInit == InitWith("TURSO", FALSE)

TursoSpec == TursoInit /\ [][TursoNext]_vars

\* ----------------------------------------------------- ENABLE_LOGS on or off
\* The same pipelines started with either setting of ENABLE_LOGS.
LogInit == \E enabled \in BOOLEAN : InitWith("KV", enabled)

LogSpec == LogInit /\ [][OpsNext]_vars

TursoLogInit == \E enabled \in BOOLEAN : InitWith("TURSO", enabled)

TursoLogSpec == TursoLogInit /\ [][TursoNext]_vars

\* ------------------------------------------- update(id, patch), await by await
\* No update of the cron or of the listener is in progress.
Quiet == procs["cron"].pc = "idle" /\ procs["consumer"].pc = "idle"

\* A call of update begins: the calls that overlap it are kept with the
\* store they started from.
BaseAfterBegin(p, write, st, ix, dx) ==
  IF \A o \in {"cron", "consumer"} \ {p} : procs[o].pc = "idle"
  THEN [store |-> st, byStatus |-> ix, byDate |-> dx,
        writes |-> <<write>>, overlap |-> FALSE]
  ELSE [base EXCEPT !.writes = Append(@, write), !.overlap = TRUE]

\* { ...before, ...data }: the record _update writes.
After(pr) == UpdatedModel(pr.before, pr.patch)

\* KvMessagesStore.update and AbstractKvStore._update, one await after the
\* other: _fetch (current), _fetch (before), kv.set of the record, the
\* BY_STATUS secondary (read and write of the old and of the new key, or of
\* the one key), the BY_PUBLISH_DATE secondary, kv.enqueue, and, when the
\* status differs from the one read first, decrementKvStats and
\* incrementKvStats (kv.get, then the commit of the value read, changed by 1).
UpdatePcs ==
  {"current", "before", "set", "oldRead", "sameWrite", "oldWrite", "newRead",
   "newWrite", "dateRead", "dateWrite", "enqueue", "decRead", "decWrite",
   "incRead", "incWrite"}

NextPc(pr) ==
  CASE pr.pc = "current" -> IF store[pr.id].status = "NONE" THEN "return" ELSE "before"
    [] pr.pc = "before" -> IF store[pr.id].status = "NONE" THEN "return" ELSE "set"
    [] pr.pc = "set" -> "oldRead"
    [] pr.pc = "oldRead" ->
         IF pr.before.status = After(pr).status THEN "sameWrite" ELSE "oldWrite"
    [] pr.pc = "sameWrite" -> "dateRead"
    [] pr.pc = "oldWrite" -> "newRead"
    [] pr.pc = "newRead" -> "newWrite"
    [] pr.pc = "newWrite" -> "dateRead"
    [] pr.pc = "dateRead" -> "dateWrite"
    [] pr.pc = "dateWrite" -> "enqueue"
    [] pr.pc = "enqueue" -> IF pr.patch.status # pr.current THEN "decRead" ELSE "return"
    [] pr.pc = "decRead" -> "decWrite"
    [] pr.pc = "decWrite" -> "incRead"
    [] pr.pc = "incRead" -> "incWrite"
    [] pr.pc = "incWrite" -> "return"

\* What the await at pr.pc reads into the locals of the call.
ReadLocals(pr) ==
  CASE pr.pc = "current" -> [pr EXCEPT !.current = store[pr.id].status]
    [] pr.pc = "before" -> [pr EXCEPT !.before = store[pr.id]]
    [] pr.pc = "oldRead" -> [pr EXCEPT !.refs = byStatus[pr.before.status]]
    [] pr.pc = "newRead" -> [pr EXCEPT !.refs = byStatus[After(pr).status]]
    [] pr.pc = "dateRead" -> [pr EXCEPT !.refs = byDate[getDateOnly(pr.before.publish_at)]]
    [] pr.pc = "decRead" -> [pr EXCEPT !.count = statusCount[pr.current]]
    [] pr.pc = "incRead" -> [pr EXCEPT !.count = statusCount[pr.patch.status]]
    [] OTHER -> pr

\* The cron goes on with the next message of its loop, the listener is done.
Returned(pr) ==
  IF pr.todo = <<>> THEN IdleProc
  ELSE [IdleProc EXCEPT !.pc = "current", !.id = Head(pr.todo),
                        !.patch = [status |-> "QUEUED"], !.todo = Tail(pr.todo)]

ProcAfterStep(pr) ==
  IF NextPc(pr) = "return" THEN Returned(pr)
  ELSE [ReadLocals(pr) EXCEPT !.pc = NextPc(pr)]

UpdateStep(p) ==
  LET pr == procs[p] IN
    /\ pr.pc \in UpdatePcs
    /\ store' = IF pr.pc = "set" THEN [store EXCEPT ![pr.id] = After(pr)] ELSE store
    /\ byStatus' =
         CASE pr.pc = "sameWrite" ->
                [byStatus EXCEPT ![pr.before.status] = Dedupe(Append(pr.refs, pr.id))]
           [] pr.pc = "oldWrite" /\ pr.refs # <<>> ->
                [byStatus EXCEPT ![pr.before.status] = Dedupe(Without(pr.refs, pr.id))]
           [] pr.pc = "newWrite" ->
                [byStatus EXCEPT ![After(pr).status] = Dedupe(Append(pr.refs, pr.id))]
           [] OTHER -> byStatus
    /\ byDate' =
         IF pr.pc = "dateWrite"
         THEN [byDate EXCEPT ![getDateOnly(pr.before.publish_at)] =
                 Dedupe(Append(pr.refs, pr.id))]
         ELSE byDate
    /\ queue' =
         IF pr.pc = "enqueue"
         THEN Stamp(Append(queue, UpdateEvent(pr.id, pr.before, After(pr), now)), written)
         ELSE queue
    /\ written' = IF pr.pc = "enqueue" THEN [written EXCEPT ![pr.id] = @ + 1] ELSE written
    /\ logs' = IF pr.pc = "enqueue" THEN LogsAfterWrite(logs, pr.id, "UPDATE") ELSE logs
    /\ statusCount' =
         CASE pr.pc = "decWrite" ->
                [statusCount EXCEPT ![pr.current] = IF pr.count > 0 THEN pr.count - 1 ELSE 0]
           [] pr.pc = "incWrite" -> [statusCount EXCEPT ![pr.patch.status] = pr.count + 1]
           [] OTHER -> statusCount
    /\ total' = IF pr.pc = "incWrite" THEN TotalAfterIncrement(total, pr.patch.status)
                ELSE total
    /\ procs' = [procs EXCEPT ![p] = ProcAfterStep(pr)]
    /\ base' = IF NextPc(pr) = "return" /\ pr.todo # <<>>
               THEN BaseAfterBegin(p, [id |-> Head(pr.todo), patch |-> [status |-> "QUEUED"]],
                                   store', byStatus', byDate')
               ELSE base
    /\ TrackTerminal
    /\ UNCHANGED <<now, cronDue, posted, forward, attempts, outbound, gotOk, callbacks,
                   response, cbResponse, ops, storageType, enableLogs, handled>>

\* stateCreated up to its call of update; the event stays with the listener
\* until the handler returns.
BeginStateCreated ==
  /\ procs["consumer"].pc = "idle"
  /\ StoreEventWith("CREATED")
  /\ LET model == getModelFromMessage(Incoming)
         patch == IF ShouldDeliverNow(model, now) THEN [status |-> "DELIVER"]
                  ELSE [status |-> "QUEUED"]
     IN IF ShouldDeliverNow(model, now) \/ ShouldQueue(model, now)
        THEN /\ queue' = Rest
             /\ procs' = [procs EXCEPT !["consumer"] =
                            [IdleProc EXCEPT !.pc = "current", !.id = Incoming.id,
                                             !.patch = patch, !.event = Incoming]]
             /\ UNCHANGED <<store, everTerminal, everSent, everDLQ, statusCount, total,
                            byStatus, byDate, logs, written>>
             /\ base' = BaseAfterBegin("consumer", [id |-> Incoming.id, patch |-> patch],
                                       store, byStatus, byDate)
        ELSE /\ ConsumeOnly
             /\ UNCHANGED <<procs, base>>
  /\ UNCHANGED <<now, cronDue, posted, forward, attempts, outbound, gotOk, callbacks,
                 response, cbResponse, ops, storageType, enableLogs>>

\* The cron callback up to its first call of update: fetchByDate, and the
\* fetched messages whose status is CREATED, in the order of the index entry.
BeginCron ==
  /\ cronDue
  /\ procs["cron"].pc = "idle"
  /\ cronDue' = FALSE
  /\ LET todo == SelectSeq(fetchByDate(byDate, now), LAMBDA id : store[id].status = "CREATED")
     IN IF todo = <<>>
        THEN UNCHANGED <<procs, base>>
        ELSE /\ procs' = [procs EXCEPT !["cron"] =
                            [IdleProc EXCEPT !.pc = "current", !.id = Head(todo),
                                             !.patch = [status |-> "QUEUED"],
                                             !.todo = Tail(todo)]]
             /\ base' = BaseAfterBegin("cron", [id |-> Head(todo),
                                                patch |-> [status |-> "QUEUED"]],
                                       store, byStatus, byDate)
  /\ UNCHANGED <<now, store, queue, posted, forward, attempts, outbound, gotOk, everTerminal,
                 everSent, everDLQ, callbacks, response, cbResponse, statusCount, total,
                 byStatus, byDate, ops, storageType, enableLogs, logs, written, handled>>

\* MESSAGE_RECEIVED handled by the listener while it handles nothing else.
CreateWhenIdle ==
  /\ procs["consumer"].pc = "idle"
  /\ HandleReceived

RaceTick ==
  /\ now < RaceMaxTime
  /\ Tick

RaceNext ==
  \/ \E id \in SingleIds, p \in 0..MaxPublish : Post(id, p, FALSE)
  \/ CreateWhenIdle
  \/ BeginStateCreated
  \/ BeginCron
  \/ \E p \in {"cron", "consumer"} : UpdateStep(p)
  \/ RaceTick

RaceSpec == Init /\ [][RaceNext]_vars

\* ------------------------------------ DELETE /admin/reset, entry by entry
\* The route lists the KV entries in key order and awaits one kv.delete per
\* listed entry whose key path contains stores/<match> (every entry without
\* match): stats/messages/status/*, stats/messages/total, the records of
\* stores/messages, then their BY_PUBLISH_DATE and BY_STATUS secondaries.
StatusOrder == <<"CREATED", "DELIVER", "DLQ", "QUEUED", "RETRY", "SENT">>

Key(kind, id, status, day) == [kind |-> kind, id |-> id, status |-> status, day |-> day]

ResetKeys(match) ==
  LET counted == SelectSeq(StatusOrder, LAMBDA x : statusCount[x] > 0)
      stats == [i \in DOMAIN counted |-> Key("stats", 0, counted[i], 0)]
      tot == IF total > 0 THEN <<Key("total", 0, "NONE", 0)>> ELSE <<>>
      stored == SeqOf({id \in MsgIds : store[id].status # "NONE"})
      records == [i \in DOMAIN stored |-> Key("primary", stored[i], "NONE", 0)]
      days == SeqOf({d \in Days : byDate[d] # <<>>})
      dates == [i \in DOMAIN days |-> Key("date", 0, "NONE", days[i])]
      listed == SelectSeq(StatusOrder, LAMBDA x : byStatus[x] # <<>>)
      statuses == [i \in DOMAIN listed |-> Key("status", 0, listed[i], 0)]
  IN (IF match = "" THEN stats \o tot ELSE <<>>)
       \o (IF ResetHitsMessages(match) THEN records \o dates \o statuses ELSE <<>>)

BeginReset(match) ==
  /\ ops < MaxOps
  /\ procs["reset"].pc = "idle"
  /\ \E id \in MsgIds : store[id].status # "NONE"
  /\ ops' = ops + 1
  /\ procs' = [procs EXCEPT !["reset"] =
                 IF ResetKeys(match) = <<>> THEN IdleProc
                 ELSE [IdleProc EXCEPT !.pc = "delete", !.keys = ResetKeys(match)]]
  /\ UNCHANGED <<now, cronDue, store, queue, posted, forward, attempts, outbound, gotOk,
                 everTerminal, everSent, everDLQ, callbacks, response, cbResponse,
                 statusCount, total, byStatus, byDate, storageType, enableLogs, logs,
                 written, handled, base>>

\* One awaited kv.delete(entry.key).
ResetStep ==
  LET pr == procs["reset"]
      k == Head(pr.keys)
  IN /\ pr.pc = "delete"
     /\ statusCount' = IF k.kind = "stats" THEN [statusCount EXCEPT ![k.status] = 0]
                       ELSE statusCount
     /\ total' = IF k.kind = "total" THEN 0 ELSE total
     /\ store' = IF k.kind = "primary" THEN [store EXCEPT ![k.id] = NoMsg] ELSE store
     /\ byDate' = IF k.kind = "date" THEN [byDate EXCEPT ![k.day] = <<>>] ELSE byDate
     /\ byStatus' = IF k.kind = "status" THEN [byStatus EXCEPT ![k.status] = <<>>]
                    ELSE byStatus
     /\ procs' = [procs EXCEPT !["reset"] =
                    IF Tail(pr.keys) = <<>> THEN IdleProc ELSE [pr EXCEPT !.keys = Tail(@)]]
     /\ TrackTerminal
     /\ UNCHANGED <<now, cronDue, queue, posted, forward, attempts, outbound, gotOk,
                    callbacks, response, cbResponse, ops, storageType, enableLogs, logs,
                    written, handled, base>>

ResetNext ==
  \/ RaceNext
  \/ \E match \in ResetMatches : BeginReset(match)
  \/ ResetStep

ResetSpec == Init /\ [][ResetNext]_vars

\* ------------------------------------------------------- process restart
\* The process stops while calls are in progress and is started again: the
\* calls and their locals are gone, the store and the queue are kept, the
\* queue delivers the event whose handler had not returned once more, and
\* the cron does not run again before the next midnight.
Crash ==
  /\ ops < MaxOps
  /\ ~Quiet
  /\ ops' = ops + 1
  /\ procs' = [p \in Procs |-> IdleProc]
  /\ base' = NoBase
  /\ queue' = IF procs["consumer"].pc # "idle"
              THEN Append(queue, [procs["consumer"].event EXCEPT !.dup = TRUE, !.at = now])
              ELSE queue
  /\ UNCHANGED <<now, cronDue, store, posted, forward, attempts, outbound, gotOk,
                 everTerminal, everSent, everDLQ, callbacks, response, cbResponse,
                 statusCount, total, byStatus, byDate, storageType, enableLogs, logs,
                 written, handled>>

CrashNext ==
  \/ RaceNext
  \/ Crash

CrashSpec == Init /\ [][CrashNext]_vars

\* ======================================================================
\* Claims
\* ======================================================================
Msg(id) == store[id]

\* An event concerning the message is still on the queue.
Pending(id) == \E i \in DOMAIN queue : queue[i].id = id

\* The step made a POST to the message's payload.url.
Attempted(id) == attempts'[id] # attempts[id]

AllowedTransitions ==
  {<<"NONE", "CREATED">>, <<"CREATED", "DELIVER">>, <<"CREATED", "QUEUED">>,
   <<"QUEUED", "DELIVER">>, <<"DELIVER", "SENT">>, <<"DELIVER", "RETRY">>,
   <<"DELIVER", "DLQ">>, <<"RETRY", "DELIVER">>}

C2_OnlyEnumeratedTransitions ==
  [][\A id \in MsgIds :
       store'[id].status # store[id].status =>
         <<store[id].status, store'[id].status>> \in AllowedTransitions]_vars

\* ---------------------------------------------------------------------
\* C3: once a message has been SENT or DLQ, no step makes another POST to
\* its payload.url.
C3_NoDeliveryAfterTerminal ==
  [][\A id \in MsgIds : everTerminal[id] => ~Attempted(id)]_vars

\* ---------------------------------------------------------------------
\* C4: every accepted message eventually reaches SENT or DLQ.  Stated as
\* what a finite run refutes: an accepted message that is not yet SENT or
\* DLQ always has something left that will move it on, an event on the
\* queue or a midnight sweep still to come for its publish day.
WaitsForCron(id) ==
  /\ Msg(id).status = "CREATED"
  /\ \/ getDateOnly(Msg(id).publish_at) > getDateOnly(now)
     \/ (getDateOnly(Msg(id).publish_at) = getDateOnly(now) /\ cronDue)

C4_NeverStranded ==
  \A id \in posted :
    Msg(id).status \notin Terminal => (Pending(id) \/ WaitsForCron(id))

\* ---------------------------------------------------------------------
\* C5: no POST to a message's payload.url is made before its publish_at.
C5_NoDeliveryBeforePublishAt ==
  [][\A id \in MsgIds : Attempted(id) => Msg(id).publish_at <= now]_vars

\* A message scheduled for a later minute of the day, delivered in the very
\* minute of its publish_at after waiting in QUEUED.
C5_Witness ==
  \E id \in MsgIds :
    /\ attempts[id] = 1
    /\ Msg(id).publish_at = now
    /\ now % DayLen # 0
    /\ Msg(id).status = "SENT"

\* ---------------------------------------------------------------------
\* C6: a message whose target fails on every attempt has received exactly 4
\* delivery attempts once it rests in DLQ.
C6_FourAttemptsThenDLQ ==
  \A id \in MsgIds :
    (Msg(id).status = "DLQ" /\ ~gotOk[id] /\ ~Pending(id)) => attempts[id] = 4

\* ---------------------------------------------------------------------
\* C7: a message with status DLQ has retried = 3.
C7_DLQHasThreeRetries ==
  \A id \in MsgIds : Msg(id).status = "DLQ" => Msg(id).retried = 3

\* A message in DLQ whose failure-callback handling has run.
C7_Witness ==
  \E id \in MsgIds :
    Msg(id).status = "DLQ" /\ ~Pending(id) /\ Len(Msg(id).last_errors) = 4

\* ---------------------------------------------------------------------
\* C8: |last_errors| = retried while the status is CREATED, QUEUED, DELIVER,
\* RETRY or SENT, and |last_errors| >= retried when it is DLQ.
C8_ErrorsMatchRetried ==
  \A id \in MsgIds :
    /\ Msg(id).status \in {"CREATED", "QUEUED", "DELIVER", "RETRY", "SENT"}
         => Len(Msg(id).last_errors) = Msg(id).retried
    /\ Msg(id).status = "DLQ" => Len(Msg(id).last_errors) >= Msg(id).retried

\* ---------------------------------------------------------------------
\* C9: a message in DLQ after 4 failed attempts (initial + 3 retries) has
\* exactly 3 entries in last_errors.
C9_ThreeErrorsInDLQ ==
  \A id \in MsgIds :
    (Msg(id).status = "DLQ" /\ ~gotOk[id] /\ attempts[id] = 4)
       => Len(Msg(id).last_errors) = 3

\* C9 as amended: such a message has exactly 4 entries in last_errors, one
\* per failed attempt.
C9_FourErrorsInDLQ ==
  \A id \in MsgIds :
    (Msg(id).status = "DLQ" /\ ~gotOk[id] /\ attempts[id] = 4)
       => Len(Msg(id).last_errors) = 4

C9_Witness ==
  \E id \in MsgIds :
    /\ Msg(id).status = "DLQ" /\ ~gotOk[id] /\ attempts[id] = 4
    /\ Len(Msg(id).last_errors) = 4

\* ---------------------------------------------------------------------
\* C10: the url is tried 3 times; when the third try has failed too, no
\* further delivery attempt is made.
C10_ThreeTries ==
  [][\A id \in MsgIds :
       (attempts[id] = 3 /\ ~gotOk[id]) => ~Attempted(id)]_vars

\* ---------------------------------------------------------------------
\* C11: a delivery attempt leaves the message SENT exactly when the target
\* answered 200 or 201; after any other answer, or a thrown error, the
\* attempt leaves it in RETRY or DLQ.
C11_SentIffOk ==
  [][\A id \in MsgIds :
       Attempted(id) =>
         /\ (store'[id].status = "SENT") <=> (response'[id] \in {200, 201})
         /\ response'[id] \notin {200, 201} => store'[id].status \in {"RETRY", "DLQ"}]_vars

\* An attempt answered 201 that left the message SENT.
C11_Witness ==
  \E id \in MsgIds : response[id] = 201 /\ Msg(id).status = "SENT"

\* ---------------------------------------------------------------------
\* C12: a message in the store has delivered_at set exactly when its status
\* has been SENT at some point.
C12_DeliveredAtIffSent ==
  \A id \in MsgIds :
    Msg(id).status # "NONE" => ((Msg(id).delivered_at # NoTime) <=> everSent[id])

\* ---------------------------------------------------------------------
\* C13: once a failed attempt has stored retry_at, no POST to the message's
\* payload.url is made before that instant.
C13_NoAttemptBeforeRetryAt ==
  [][\A id \in MsgIds :
       (Attempted(id) /\ Msg(id).retry_at # NoTime) => Msg(id).retry_at <= now]_vars

\* ---------------------------------------------------------------------
\* C14: the failure-callback URL is POSTed to at most once per message, only
\* for a message that carries the header and after DLQ has been stored; and
\* when such a message has been in DLQ and no event of it is left on the
\* queue, the POST has been made exactly once.
C14_OneFailureCallback ==
  \A id \in MsgIds :
    /\ callbacks[id] <= 1
    /\ callbacks[id] > 0 => (Msg(id).fcb /\ everDLQ[id])
    /\ (everDLQ[id] /\ Msg(id).fcb /\ ~Pending(id)) => callbacks[id] = 1

\* ---------------------------------------------------------------------
\* C15: a failure-callback POST that fails (an answer other than 200 or 201,
\* or a thrown error) leaves the store as it was and the queue with the
\* consumed event removed and nothing added.
C15_FailedCallbackChangesNothing ==
  [][\A id \in MsgIds :
       (callbacks'[id] # callbacks[id] /\ cbResponse'[id] \notin {200, 201})
         => (store' = store /\ queue' = Rest)]_vars

\* A failure-callback POST that ran into a thrown error, with the message
\* still in DLQ and nothing left on the queue.
C15_Witness ==
  \E id \in MsgIds :
    /\ callbacks[id] = 1 /\ cbResponse[id] = Thrown
    /\ Msg(id).status = "DLQ" /\ ~Pending(id)

\* ---------------------------------------------------------------------
\* C16: when the queue delivers a STORE_UPDATE_EVENT a second time, handling
\* the copy leaves status, retried, last_errors and delivered_at of the
\* stored message as they were.
HandlerStep ==
  /\ HasNext
  /\ now' = now /\ cronDue' = cronDue /\ posted' = posted /\ ops' = ops

C16_SecondConsumptionChangesNothing ==
  [][(HandlerStep /\ Incoming.dup /\ Incoming.type = "STORE_UPDATE_EVENT")
       => \A f \in {"status", "retried", "last_errors", "delivered_at"} :
            store'[Incoming.id][f] = store[Incoming.id][f]]_vars

\* ---------------------------------------------------------------------
\* C17: between operations the per-status counters add up to the number of
\* messages in the store.
SumOfStatusCounters ==
  statusCount["CREATED"] + statusCount["QUEUED"] + statusCount["DELIVER"]
    + statusCount["SENT"] + statusCount["RETRY"] + statusCount["DLQ"]

StoredMessages == Cardinality({id \in MsgIds : Msg(id).status # "NONE"})

C17_CountersMatchStore == SumOfStatusCounters = StoredMessages

\* ---------------------------------------------------------------------
\* C18: handling a MESSAGE_RECEIVED event, which creates a message with status
\* CREATED, raises the all-time total by exactly one; a step that moves a
\* stored message from one status to another leaves the total as it was.
C18_TotalCountsCreations ==
  [][IF HandlerStep /\ Incoming.type = "MESSAGE_RECEIVED"
     THEN /\ store'[Incoming.id].status = "CREATED"
          /\ total' = total + 1
     ELSE \A id \in MsgIds :
            (/\ store[id].status # "NONE"
             /\ store'[id].status # "NONE"
             /\ store'[id].status # store[id].status) => total' = total]_vars

\* One message created and taken through to SENT, counted once.
C18_Witness == total = 1 /\ statusCount["SENT"] = 1 /\ Msg(1).status = "SENT"

\* ---------------------------------------------------------------------
\* C19: handling a MESSAGE_RECEIVED event whose id is already in the store
\* (a create with an existing id) leaves the stored messages, the BY_STATUS
\* index and the counters as they were.
C19_DuplicateCreateChangesNothing ==
  [][(/\ HandlerStep
      /\ Incoming.type = "MESSAGE_RECEIVED"
      /\ store[Incoming.id].status # "NONE")
       => (/\ store' = store
           /\ byStatus' = byStatus
           /\ statusCount' = statusCount
           /\ total' = total)]_vars

\* ---------------------------------------------------------------------
\* C20: a handler whose message is not in the store, so that its update hits
\* an unknown id, writes no message, changes no index entry and no counter,
\* and produces no STORE_UPDATE_EVENT.
UpdateEvents(q) ==
  Cardinality({i \in DOMAIN q : q[i].type = "STORE_UPDATE_EVENT"})

C21_DeleteLowersStatusCounterOnly ==
  [][\A id \in MsgIds :
       (Delete(id) \/ TursoDelete(id)) =>
         /\ statusCount' = [statusCount EXCEPT ![store[id].status] = @ - 1]
         /\ total' = total]_vars

\* ---------------------------------------------------------------------
\* C22: delete(id) of a stored message, on either store backend, puts exactly
\* one STORE_DELETE_EVENT for it on the queue.
DeleteEvents(q, id) ==
  Cardinality({i \in DOMAIN q : q[i].type = "STORE_DELETE_EVENT" /\ q[i].id = id})

C22_DeleteEnqueuesOneEvent ==
  [][\A id \in MsgIds :
       (Delete(id) \/ TursoDelete(id)) =>
         DeleteEvents(queue', id) = DeleteEvents(queue, id) + 1]_vars

\* ---------------------------------------------------------------------
\* C23: a run of the midnight cron sets every stored message that has status
\* CREATED and date(publish_at) = today to QUEUED, changing nothing else of
\* it, and leaves every other message as it was.
CronStep == cronDue /\ ~cronDue'

DueToday(id) ==
  /\ store[id].status = "CREATED"
  /\ getDateOnly(store[id].publish_at) = getDateOnly(now)

C23_CronChangesExactlyTodaysCreated ==
  [][CronStep =>
       \A id \in MsgIds :
         store'[id] = IF DueToday(id) THEN [store[id] EXCEPT !.status = "QUEUED"]
                      ELSE store[id]]_vars

\* ---------------------------------------------------------------------
\* C24: DELETE /admin/reset/migrations is answered with HTTP 400 and leaves
\* messages, indexes and counters exactly as they were.  Stated for the
\* reset route of the KV backend; the route of the Turso backend is
\* TursoReset with TursoResetStatus.
C24_ResetMigrationsRejected ==
  [][Reset("migrations") =>
       /\ ResetStatus("migrations") = 400
       /\ UNCHANGED <<store, byStatus, byDate, statusCount, total>>]_vars

\* ---------------------------------------------------------------------
\* C25: once POST /messages/<url> has returned 201 with an id, GET
\* /messages/<id> returns the message, with the publish_at of the POST and
\* status CREATED or a later one, and never 404.
C25_GetAfterPostFindsMessage ==
  \A id \in posted :
    /\ GetStatus(store, id) = 200
    /\ Msg(id).status \in Statuses
    /\ Msg(id).publish_at \in 0..MaxPublish

\* ---------------------------------------------------------------------
\* C26: every POST to payload.url carries under Done-Message-Id, Done-Status,
\* Done-Retried and User-Agent the system's value and nothing else, whatever
\* forward header the client has sent.
C26_SystemHeadersNotOverridden ==
  \A id \in MsgIds :
    outbound[id] # <<>> =>
      /\ HeaderValues(outbound[id], "done-message-id") = <<ToString(id)>>
      /\ HeaderValues(outbound[id], "done-status") = <<"DELIVER">>
      /\ \E n \in 0..RetryLimit :
            HeaderValues(outbound[id], "done-retried") = <<ToString(n)>>
      /\ HeaderValues(outbound[id], "user-agent") = <<"Done Light">>

\* ---------------------------------------------------------------------
\* C27: after the stats have been initialized from the messages in the store,
\* every per-status counter is the number of stored messages with that
\* status, whatever the counters were before; so initializing once more
\* from the same messages would leave them as they are.
MessagesWithStatus(st, x) == Cardinality({id \in MsgIds : st[id].status = x})

C27_InitializeCountsStoredMessages ==
  [][InitializeStats =>
       /\ \A x \in Statuses : statusCount'[x] = MessagesWithStatus(store, x)
       /\ initializeKvStats(statusCount', StoredMessageList(store')) = statusCount']_vars

\* The stats were initialized after a message had been created twice: the
\* BY_STATUS entry still lists it twice, the counter reads 1 again.
C27_Witness ==
  /\ byStatus["CREATED"] = <<1, 1>>
  /\ Msg(1).status = "CREATED"
  /\ statusCount["CREATED"] = 1
  /\ total = 1

\* ---------------------------------------------------------------------
\* C28: when the state manager handles a STORE_CREATE_EVENT or
\* STORE_UPDATE_EVENT whose message has status CREATED and publish_at <= now,
\* publish_at = now included, it writes status DELIVER.
VisitsCreated ==
  /\ HandlerStep
  /\ Incoming.type \in {"STORE_CREATE_EVENT", "STORE_UPDATE_EVENT"}
  /\ getModelFromMessage(Incoming).status = "CREATED"

\* The step has made a store update that wrote the given status.
WritesStatus(x) ==
  /\ Len(queue') = Len(Rest) + 1
  /\ queue'[Len(queue')].type = "STORE_UPDATE_EVENT"
  /\ queue'[Len(queue')].data.status = x
  /\ store'[Incoming.id].status = x

C28_DuePublishWritesDeliver ==
  [][(VisitsCreated /\ getModelFromMessage(Incoming).publish_at <= now)
       => WritesStatus("DELIVER")]_vars

\* ---------------------------------------------------------------------
\* C29: when the state manager visits a message in status CREATED, it writes
\* QUEUED exactly when date(publish_at) = date(now) and publish_at > now; for
\* a message of a later day it writes nothing and enqueues nothing.
C29_QueuedIffLaterToday ==
  [][VisitsCreated =>
       LET model == getModelFromMessage(Incoming) IN
         /\ WritesStatus("QUEUED") <=>
               (/\ getDateOnly(model.publish_at) = getDateOnly(now)
                /\ model.publish_at > now)
         /\ getDateOnly(model.publish_at) > getDateOnly(now)
               => (store' = store /\ queue' = Rest)]_vars

\* ---------------------------------------------------------------------
\* C30: the delay passed to the queue with a MESSAGE_QUEUED or MESSAGE_RETRY
\* event is never negative: it is publish_at - now (retry_at - now for a
\* retry) when that is positive and 0 otherwise.
NonNegative(d) == IF d > 0 THEN d ELSE 0

C30_DelayNeverNegative ==
  [][(HandlerStep /\ Incoming.type \in StoreEvents) =>
       LET model == getModelFromMessage(Incoming) IN
         /\ model.status = "QUEUED" =>
               QueuedDelay(model, now) = NonNegative(model.publish_at - now)
         /\ (model.status = "RETRY" /\ model.retry_at # NoTime) =>
               RetryDelay(model, now) = NonNegative(model.retry_at - now)]_vars

\* ---------------------------------------------------------------------
\* C31: every store update that succeeds, one that leaves the status as it
\* was included, enqueues exactly one STORE_UPDATE_EVENT, which carries the
\* record before and after the update.
CallsUpdate ==
  LET model == getModelFromMessage(Incoming) IN
    \/ Incoming.type \in {"MESSAGE_QUEUED", "MESSAGE_RETRY"}
    \/ /\ Incoming.type \in StoreEvents
       /\ \/ model.status = "DELIVER"
          \/ /\ model.status = "CREATED"
             /\ (ShouldDeliverNow(model, now) \/ ShouldQueue(model, now))

EventsOfType(q, type) == Cardinality({i \in DOMAIN q : q[i].type = type})

\* The store events a step has enqueued: one per write of the store.
WritesDone(type) ==
  EventsOfType(queue', type) - EventsOfType(IF HandlerStep THEN Rest ELSE queue, type)

LogCount(lg, kind) == lg[1][kind] + lg[2][kind]

C32_LogEntryIffLoggingEnabled ==
  [][ops' = ops =>
       /\ LogCount(logs', "CREATE") - LogCount(logs, "CREATE")
            = IF enableLogs THEN WritesDone("STORE_CREATE_EVENT") ELSE 0
       /\ LogCount(logs', "UPDATE") - LogCount(logs, "UPDATE")
            = IF enableLogs THEN WritesDone("STORE_UPDATE_EVENT") ELSE 0]_vars

\* ---------------------------------------------------------------------
\* C33: for one message the state manager handles the store events in the
\* order of their writes: a store event that is older than one already
\* handled for the same message is not acted on (no store write, no event
\* enqueued, no POST to the url or to the failure callback).
OlderThanHandled ==
  /\ HandlerStep
  /\ Incoming.type \in StoreEvents
  /\ Incoming.seq < handled[Incoming.id]

C33_NoActionOnOlderSnapshot ==
  [][OlderThanHandled =>
       /\ store' = store
       /\ queue' = Rest
       /\ attempts' = attempts
       /\ callbacks' = callbacks]_vars

\* ---------------------------------------------------------------------
\* C34: two updates of the same message that overlap in time take effect as
\* if one had run after the other: when both have returned, the stored
\* messages and the BY_STATUS and BY_PUBLISH_DATE indexes are those of one
\* of the two sequential orders of the two updates.
Sequential(b, first, second) ==
  LET mid == StoreAfterUpdate(b.store, first.id, first.patch) IN
    <<StoreAfterUpdate(mid, second.id, second.patch),
      IndexAfterUpdate(IndexAfterUpdate(b.byStatus, b.store, first.id, first.patch),
                       mid, second.id, second.patch),
      DateIndexAfterUpdate(DateIndexAfterUpdate(b.byDate, b.store, first.id, first.patch),
                           mid, second.id, second.patch)>>

OverlappingUpdatesReturn ==
  /\ ~Quiet
  /\ Quiet'
  /\ base.overlap
  /\ Len(base.writes) = 2
  /\ base.writes[1].id = base.writes[2].id

C34_OverlappingWritesSerialized ==
  [][OverlappingUpdatesReturn =>
       <<store', byStatus', byDate'>> \in
          {Sequential(base, base.writes[1], base.writes[2]),
           Sequential(base, base.writes[2], base.writes[1])}]_vars

\* ---------------------------------------------------------------------
\* C37: status counters stay exact when counter updates overlap: the commit
\* of an increment leaves the counter one above, the commit of a decrement
\* one below (not below 0), the value the counter had just before the commit,
\* so that no update made in between is lost.
Commits(p, pc) == procs[p].pc = pc /\ procs'[p] # procs[p]

C37_NoCounterUpdateLost ==
  [][\A p \in {"cron", "consumer"} :
       /\ Commits(p, "incWrite") =>
            statusCount'[procs[p].patch.status] = statusCount[procs[p].patch.status] + 1
       /\ Commits(p, "decWrite") =>
            statusCount'[procs[p].current] =
               (IF statusCount[procs[p].current] > 0
                THEN statusCount[procs[p].current] - 1 ELSE 0)]_vars

\* ---------------------------------------------------------------------
\* C35: an admin bulk reset never runs concurrently with another store
\* write: from its first to its last delete no step of the state manager or
\* of the cron writes a record, an index entry or a counter.
ResetRunning == procs["reset"].pc = "delete"

C35_ResetExcludesOtherWrites ==
  [][(ResetRunning /\ procs'["reset"] = procs["reset"]) =>
       UNCHANGED <<store, byStatus, byDate, statusCount, total>>]_vars

\* ---------------------------------------------------------------------
\* C36: on the KV store the BY_STATUS and BY_PUBLISH_DATE indexes agree with
\* the records after any creates, updates and deletes: fetchByStatus(s)
\* returns exactly the stored messages whose status is s, each once, and
\* fetchByDate(d) exactly those whose publish_at falls on day d.
Fetched(entry) == SelectSeq(entry, LAMBDA id : store[id].status # "NONE")

ReturnsExactly(entry, ids) ==
  /\ {Fetched(entry)[i] : i \in DOMAIN Fetched(entry)} = ids
  /\ Len(Fetched(entry)) = Cardinality(ids)

C36_IndexesAgreeWithRecords ==
  /\ \A x \in Statuses :
       ReturnsExactly(byStatus[x], {id \in MsgIds : store[id].status = x})
  /\ \A d \in Days :
       ReturnsExactly(byDate[d], {id \in MsgIds : /\ store[id].status # "NONE"
                                                   /\ getDateOnly(store[id].publish_at) = d})

\* ---------------------------------------------------------------------
\* C38: a stop of the process between a message write and the enqueue of
\* its store event leaves no message for ever in QUEUED, DELIVER or RETRY.
\* Stated as what a finite run refutes: a stored message in one of these
\* statuses that no call in progress is writing always has an event on the
\* queue that will move it on (the cron moves CREATED messages only).
BeingWritten(id) ==
  \E p \in {"cron", "consumer"} : procs[p].pc # "idle" /\ procs[p].id = id

C38_NoStrandingAfterRestart ==
  \A id \in MsgIds :
    (Msg(id).status \in {"QUEUED", "DELIVER", "RETRY"} /\ ~BeingWritten(id))
      => Pending(id)

\* ---------------------------------------------------------------------
\* C39: consuming a STORE_DELETE_EVENT triggers no delivery work for the
\* deleted message: no POST to its url or failure callback, no MESSAGE_QUEUED
\* or MESSAGE_RETRY enqueued, no store write; the event is consumed only.
C39_DeleteEventOnlyConsumed ==
  [][(HandlerStep /\ Incoming.type = "STORE_DELETE_EVENT") =>
       /\ queue' = Rest
       /\ attempts' = attempts
       /\ callbacks' = callbacks
       /\ UNCHANGED <<store, byStatus, byDate, statusCount, total, written>>]_vars

\* ---------------------------------------------------------------------
\* C40: the loop store write -> store event -> state manager -> store write
\* ends for every message: the store events of one message are finitely
\* many (the create, and at most two chains of QUEUED, DELIVER, RetryLimit
\* times RETRY and DELIVER, and the final SENT or DLQ), and once the message
\* is SENT or DLQ with none of its events left on the queue, no event
\* for it is on the queue or added to it again.
MaxStoreEvents == 1 + 2 * (3 + 2 * RetryLimit)

Settled(id) == Msg(id).status \in Terminal /\ ~Pending(id)

C40_EventLoopTerminates ==
  /\ [](\A id \in MsgIds : written[id] <= MaxStoreEvents)
  /\ [][\A id \in MsgIds :
          Settled(id) => \A i \in DOMAIN queue' : queue'[i].id # id]_vars

\* A message that went through every retry twice and is settled in DLQ.
C40_Witness == Settled(1) /\ Msg(1).status = "DLQ" /\ written[1] = MaxStoreEvents

====
